---- MODULE Spec2Model ----
(***************************************************************************)
(* A model of the resource-service library: the chainable request builders *)
(* (GetQuery, SearchQuery) of resource-builders.ts and the ResourceService  *)
(* facade of resource.service.ts, with the HTTP transport as the           *)
(* environment that completes each issued request with a success body or   *)
(* with an error.                                                          *)
(***************************************************************************)
EXTENDS Integers, Sequences, FiniteSets, TLC

VARIABLES
    configUrl,  \* ResourceConfigService.url
    apiUrl,     \* ResourceService.apiUrl
    hasHook,    \* whether the model class declares onInstantiated
    builders,   \* the builders made by findAll / findById / findWhere
    objs,       \* the caller's resource objects (the heap the service merges into)
    opts,       \* the <<params, headers>> the caller passes to the service's methods
    arrs,       \* the caller's arrays (the ones it keeps a reference to)
    ret,        \* the builder the last modifier call returned (0: none made yet)
    index,      \* the entries last given to generateIndex, and what it returned
    reqs,       \* every HTTP request handed to the transport, with its promise
    calls       \* every terminal call and service call made, with what came of it

vars == <<configUrl, apiUrl, hasHook, builders, objs, opts, arrs, ret, index, reqs, calls>>

(***************************************************************************)
(* Bounds of the model.                                                    *)
(***************************************************************************)
MaxMods == 2    \* modifier calls made on one builder
MaxCalls == 2
MaxEntries == 3   \* terminal calls and service calls made in one behaviour

(***************************************************************************)
(* JavaScript values, as far as the library handles them.                  *)
(***************************************************************************)
JUndef == [t |-> "undefined", n |-> 0, s |-> "", a |-> <<>>]
JNull == [t |-> "null", n |-> 0, s |-> "", a |-> <<>>]
JNum(n) == [t |-> "number", n |-> n, s |-> "", a |-> <<>>]
JStr(s) == [t |-> "string", n |-> 0, s |-> s, a |-> <<>>]
JArr(a) == [t |-> "array", n |-> 0, s |-> "", a |-> a]
\* an array the caller keeps a reference to: its elements are arrs[ref]
JArrRef(ref) == [t |-> "arrayref", n |-> ref, s |-> "", a |-> <<>>]
JFn(name) == [t |-> "function", n |-> 0, s |-> name, a |-> <<>>]
JObj(ref) == [t |-> "object", n |-> ref, s |-> "", a |-> <<>>]
\* an HttpParams: its entries <<key, value>> in the order of the underlying Map
JParams(p) == [t |-> "HttpParams", n |-> 0, s |-> "", a |-> p]
\* an HttpHeaders: its entries <<name, value>>
JHeaders(h) == [t |-> "HttpHeaders", n |-> 0, s |-> "", a |-> h]

\* the truthiness an `if (x)` tests
Truthy(v) ==
    CASE v.t = "undefined" -> FALSE
      [] v.t = "null" -> FALSE
      [] v.t = "number" -> v.n # 0
      [] v.t = "string" -> v.s # ""
      [] OTHER -> TRUE

RECURSIVE Join(_, _)
\* Array.prototype.join over strings
Join(strs, sep) ==
    IF strs = <<>> THEN ""
    ELSE IF Len(strs) = 1 THEN strs[1]
    ELSE strs[1] \o sep \o Join(Tail(strs), sep)

\* x.toString() of a number or a string
ScalarToString(v) == IF v.t = "number" THEN ToString(v.n) ELSE v.s

\* x.toString(), which is also what '/' + x appends
JToString(v) ==
    CASE v.t = "number" -> ToString(v.n)
      [] v.t = "string" -> v.s
      [] v.t = "array" -> Join([i \in 1..Len(v.a) |-> ScalarToString(v.a[i])], ",")
      [] v.t = "arrayref" ->
            Join([i \in 1..Len(arrs[v.n]) |-> ScalarToString(arrs[v.n][i])], ",")
      [] v.t = "HttpParams" ->
            Join([i \in 1..Len(v.a) |-> v.a[i][1] \o "=" \o v.a[i][2]], "&")
      [] v.t = "function" -> "function " \o v.s
      [] v.t = "undefined" -> "undefined"
      [] v.t = "null" -> "null"
      [] OTHER -> "[object Object]"

\* HttpParams.set(param, value): replaces the value of a parameter that is
\* there, in its place, and appends a parameter that is not
ParamsSet(p, k, v) ==
    IF \E i \in 1..Len(p) : p[i][1] = k
    THEN [i \in 1..Len(p) |-> IF p[i][1] = k THEN <<k, v>> ELSE p[i]]
    ELSE Append(p, <<k, v>>)

\* obj[key] = value on a plain object whose keys Object.keys lists in
\* insertion order
ObjSet(h, k, v) == ParamsSet(h, k, v)

(***************************************************************************)
(* Records: the fields of a resource, of a raw record sent by the server   *)
(* and of a model instance.  A field that is not there reads undefined.    *)
(***************************************************************************)
Fields == {"id", "name"}
Rec(id, name) == [id |-> id, name |-> name]
EmptyRec == Rec(JUndef, JUndef)
Has(r, f) == r[f] # JUndef

\* Object.assign(target, source): every field of source overwrites target's
Assign(target, source) ==
    [f \in Fields |-> IF Has(source, f) THEN source[f] ELSE target[f]]

(***************************************************************************)
(* GetQuery and SearchQuery (resource-builders.ts).                        *)
(***************************************************************************)
BuilderIds == {1, 2}
NoBuilder == [live |-> FALSE]
NoOrigin == [factory |-> "", f |-> "", v |-> JUndef]

\* new GetQuery(getHandler, id)
NewGetQuery(getHandler, id) ==
    [live |-> TRUE,
     id |-> id,
     getHandler |-> getHandler,
     onlyFields |-> <<>>,
     limitResult |-> JUndef,
     pageNumber |-> JUndef,
     orderByFields |-> <<>>,
     headers |-> <<>>,
     isSearch |-> FALSE,
     searchParams |-> <<>>,
     searchHandler |-> JUndef,
     mods |-> 0,              \* history: the modifier calls made on it
     origin |-> NoOrigin]     \* history: the factory call that made it

\* new SearchQuery(field, value, searchHandler)
NewSearchQuery(field, value, searchHandler) ==
    [NewGetQuery(searchHandler, JUndef) EXCEPT
        !.isSearch = TRUE,
        !.searchParams = <<[field |-> field, value |-> JToString(value)]>>,
        !.searchHandler = searchHandler]

\* a faulty variant of only: a field already selected is not added again
onlyDistinct(q, fields) ==
    [q EXCEPT !.onlyFields =
        @ \o SelectSeq(fields, LAMBDA f : \A i \in 1..Len(q.onlyFields) : q.onlyFields[i] # f)]

\* GetQuery.only(...fields)
only(q, fields) == [q EXCEPT !.onlyFields = q.onlyFields \o fields]

\* GetQuery.limit(limitResult)
limit(q, n) == [q EXCEPT !.limitResult = JNum(n)]

\* GetQuery.page(pageNumber)
page(q, n) == [q EXCEPT !.pageNumber = JNum(n)]

\* a faulty variant of orderBy: the entry replaces the ones made before
orderByReplaces(q, field, type) ==
    LET t == IF type = JUndef THEN "asc" ELSE type.s
    IN  [q EXCEPT !.orderByFields = <<<<field, t>>>>]

\* GetQuery.orderBy(field, type = 'asc'): an argument left out (undefined)
\* takes the default
orderBy(q, field, type) ==
    LET t == IF type = JUndef THEN "asc" ELSE type.s
    IN  [q EXCEPT !.orderByFields = Append(q.orderByFields, <<field, t>>)]

\* GetQuery.header(key, value)
header(q, key, value) == [q EXCEPT !.headers = ObjSet(q.headers, key, value)]

\* GetQuery.fresh()
fresh(q) == [q EXCEPT !.headers = ObjSet(q.headers, "no-cache", JStr("1"))]

\* SearchQuery.andWhere(field, value)
andWhere(q, field, value) ==
    [q EXCEPT !.searchParams =
        Append(q.searchParams, [field |-> JStr(field), value |-> JToString(value)])]

\* JSON.stringify of the array of [field, type] pairs
OrderJson(order) ==
    "[" \o Join([i \in 1..Len(order) |->
                    "[\"" \o order[i][1] \o "\",\"" \o order[i][2] \o "\"]"], ",")
        \o "]"

\* a faulty variant of getHttpParams: page is set before limit
getHttpParamsPageFirst(q) ==
    LET p0 == <<>>
        p1 == IF q.onlyFields # <<>>
              THEN ParamsSet(p0, "only", Join(q.onlyFields, ",")) ELSE p0
        p2 == IF Truthy(q.pageNumber)
              THEN ParamsSet(p1, "page", JToString(q.pageNumber)) ELSE p1
        p3 == IF Truthy(q.limitResult)
              THEN ParamsSet(p2, "limit", JToString(q.limitResult)) ELSE p2
        p4 == IF q.orderByFields # <<>>
              THEN ParamsSet(p3, "order", OrderJson(q.orderByFields)) ELSE p3
    IN  p4

\* GetQuery.getHttpParams(): the entries of the HttpParams it builds
getHttpParams(q) ==
    LET p0 == <<>>
        p1 == IF q.onlyFields # <<>>
              THEN ParamsSet(p0, "only", Join(q.onlyFields, ",")) ELSE p0
        p2 == IF Truthy(q.limitResult)
              THEN ParamsSet(p1, "limit", JToString(q.limitResult)) ELSE p1
        p3 == IF Truthy(q.pageNumber)
              THEN ParamsSet(p2, "page", JToString(q.pageNumber)) ELSE p2
        p4 == IF q.orderByFields # <<>>
              THEN ParamsSet(p3, "order", OrderJson(q.orderByFields)) ELSE p3
    IN  p4

\* HttpHeaders.set(name, value) on an HttpHeaders with these entries
HeadersSet(h, name, value) == ParamsSet(h, name, value)

RECURSIVE SetHeaders(_, _)
\* the loop `for (const key of keys) httpHeaders = httpHeaders.set(key, headers[key].toString())`
SetHeaders(h, entries) ==
    IF entries = <<>> THEN h
    ELSE SetHeaders(HeadersSet(h, entries[1][1], JToString(entries[1][2])), Tail(entries))

\* a faulty variant of getHttpHeaders: an empty HttpHeaders when no header was set
getHttpHeadersAlways(q) == JHeaders(SetHeaders(<<>>, q.headers))

\* GetQuery.getHttpHeaders(): an HttpHeaders, or null when no header was set
getHttpHeaders(q) ==
    IF q.headers # <<>> THEN JHeaders(SetHeaders(<<>>, q.headers)) ELSE JNull

RECURSIVE SetAll(_, _)
\* the loop `for (const searchParam of this.searchParams) params = params.set(...)`
SetAll(p, sp) ==
    IF sp = <<>> THEN p
    ELSE SetAll(ParamsSet(p, JToString(sp[1].field), sp[1].value), Tail(sp))

\* the HttpParams a SearchQuery terminal call hands to its handler
searchHttpParams(q) == SetAll(getHttpParams(q), q.searchParams)

(***************************************************************************)
(* Response bodies the transport delivers, and the values promises resolve *)
(* with.                                                                   *)
(***************************************************************************)
NullBody ==
    [kind |-> "null", fields |-> EmptyRec,
     hasData |-> FALSE, data |-> <<>>, hasMeta |-> FALSE, count |-> 0]
RecBody(r) == [NullBody EXCEPT !.kind = "record", !.fields = r]
EnvBody(hasData, data, hasMeta, count) ==
    [NullBody EXCEPT !.kind = "envelope", !.hasData = hasData, !.data = data,
                     !.hasMeta = hasMeta, !.count = count]

\* new this.modelClass()
NewModel == [class |-> "Model", fields |-> EmptyRec, hookCalls |-> 0, hookSaw |-> EmptyRec]
NoInstance == [class |-> "", fields |-> EmptyRec, hookCalls |-> 0, hookSaw |-> EmptyRec]

NoValue ==
    [kind |-> "none", ref |-> 0, item |-> NoInstance,
     hasData |-> FALSE, data |-> <<>>, hasMeta |-> FALSE, count |-> 0, raw |-> NullBody]
RefValue(ref) == [NoValue EXCEPT !.kind = "ref", !.ref = ref]
ItemValue(item) == [NoValue EXCEPT !.kind = "item", !.item = item]
ListValue(hasData, data, hasMeta, count) ==
    [NoValue EXCEPT !.kind = "list", !.hasData = hasData, !.data = data,
                    !.hasMeta = hasMeta, !.count = count]
RawValue(body) == [NoValue EXCEPT !.kind = "raw", !.raw = body]
VoidValue == [NoValue EXCEPT !.kind = "void"]

(***************************************************************************)
(* ResourceService (resource.service.ts): the request each method hands to *)
(* the transport.                                                          *)
(***************************************************************************)
Request(op, verb, url, params, headers, body, target) ==
    [op |-> op, verb |-> verb, url |-> url, params |-> params, headers |-> headers,
     body |-> body, target |-> target,
     status |-> "inflight",   \* "inflight", then "done" once the transport completes
     ok |-> FALSE, response |-> NullBody, error |-> "",
     promise |-> "pending",   \* "pending", "resolved" or "rejected"
     value |-> NoValue, reason |-> ""]

FormData == JStr("FormData")

\* a faulty variant of list: the base URL is read from the configuration store
\* at each call
listFromConfig(params, headers) ==
    Request("list", "GET", configUrl \o "/user", params, headers, JUndef, 0)

\* list(params, headers)
list(params, headers) ==
    Request("list", "GET", apiUrl, params, headers, JUndef, 0)

\* get(id, params, headers)
get(id, params, headers) ==
    Request("get", "GET", apiUrl \o "/" \o JToString(id), params, headers, JUndef, 0)

\* create(resource, params, headers)
create(resource, params, headers) ==
    Request("create", "POST", apiUrl, params, headers, JObj(resource), resource)

\* update(resource, params, headers)
update(resource, params, headers) ==
    Request("update", "PUT", apiUrl \o "/" \o JToString(objs[resource].id),
            params, headers, JObj(resource), resource)

\* patch(resource, params, headers)
patch(resource, params, headers) ==
    Request("patch", "PATCH", apiUrl \o "/" \o JToString(objs[resource].id),
            params, headers, JObj(resource), resource)

\* a faulty variant of remove: the resource is sent as the body of the DELETE
removeWithBody(resource, params, headers) ==
    Request("remove", "DELETE", apiUrl \o "/" \o JToString(objs[resource].id),
            params, headers, JObj(resource), resource)

\* remove(resource, params, headers)
remove(resource, params, headers) ==
    Request("remove", "DELETE", apiUrl \o "/" \o JToString(objs[resource].id),
            params, headers, JUndef, resource)

\* search(searchParams, method = 'get', resource, headers)
search(searchParams, method, resource, headers) ==
    LET m == IF method = JUndef THEN "get" ELSE method.s
        verb == CASE m = "get" -> "GET" [] m = "patch" -> "PATCH" [] OTHER -> "DELETE"
    IN  Request("search", verb, apiUrl \o "/search", searchParams, headers,
                IF m = "patch" THEN resource ELSE JUndef, 0)

\* a faulty variant of rawUrl: the '/' is put in front of an empty path too
rawUrlAlways(path) == "/" \o (IF path = JUndef THEN "" ELSE JToString(path))

\* `const url = path ? '/' + path : ''`, with the parameter default `path = ''`
rawUrl(path) ==
    LET p == IF path = JUndef THEN JStr("") ELSE path
    IN  IF Truthy(p) THEN "/" \o JToString(p) ELSE ""

\* rawGet(path, options): options is {params, headers} or undefined
rawGet(path, options) ==
    Request("rawGet", "GET", apiUrl \o rawUrl(path), options[1], options[2], JUndef, 0)

\* rawPost(path, data, options)
rawPost(path, data, options) ==
    Request("rawPost", "POST", apiUrl \o rawUrl(path), options[1], options[2], data, 0)

\* rawPut(path, data, options)
rawPut(path, data, options) ==
    Request("rawPut", "PUT", apiUrl \o rawUrl(path), options[1], options[2], data, 0)

\* rawPatch(path, data, options)
rawPatch(path, data, options) ==
    Request("rawPatch", "PATCH", apiUrl \o rawUrl(path), options[1], options[2], data, 0)

\* rawDelete(path, options)
rawDelete(path, options) ==
    Request("rawDelete", "DELETE", apiUrl \o rawUrl(path), options[1], options[2], JUndef, 0)

RECURSIVE IndexAll(_, _)
\* the loop `index[item.id] = item` over the entries, in list order; a property
\* key is the string form of the id
IndexAll(index0, entries) ==
    IF entries = <<>> THEN index0
    ELSE IndexAll(ObjSet(index0, JToString(entries[1].id), entries[1]), Tail(entries))

\* generateIndex(entries)
generateIndex(entries) == IndexAll(<<>>, entries)

\* upload(formData, params, headers)
upload(formData, params, headers) ==
    Request("upload", "POST", apiUrl \o "/upload", params, headers, formData, 0)

\* uploadFor(resource, formData, params, headers)
uploadFor(resource, formData, params, headers) ==
    Request("uploadFor", "POST",
            apiUrl \o "/" \o JToString(objs[resource].id) \o "/upload",
            params, headers, formData, 0)

(***************************************************************************)
(* A call of a builder's handler.  The handler is whatever value the       *)
(* constructor stored: calling a value that is no function throws a        *)
(* TypeError, and a bound service method issues its request.               *)
(***************************************************************************)
Arg(args, i) == IF i <= Len(args) THEN args[i] ELSE JUndef
NoRequest == Request("", "", "", JUndef, JUndef, JUndef, 0)
Threw(e) == [threw |-> e, req |-> NoRequest]
Issued(r) == [threw |-> "", req |-> r]

Invoke(handler, args) ==
    IF handler.t # "function" THEN Threw("TypeError")
    ELSE CASE handler.s = "list" -> Issued(list(Arg(args, 1), Arg(args, 2)))
           [] handler.s = "get" -> Issued(get(Arg(args, 1), Arg(args, 2), Arg(args, 3)))
           [] OTHER -> Issued(search(Arg(args, 1), Arg(args, 2), Arg(args, 3), Arg(args, 4)))

\* GetQuery.get()
GetQueryGet(q) ==
    LET params == JParams(getHttpParams(q))
        headers == getHttpHeaders(q)
    IN  IF Truthy(q.id)
        THEN Invoke(q.getHandler, <<q.id, params, headers>>)
        ELSE Invoke(q.getHandler, <<params, headers>>)

\* SearchQuery.get()
SearchQueryGet(q) ==
    Invoke(q.searchHandler,
           <<JParams(searchHttpParams(q)), JStr("get"), JNull, getHttpHeaders(q)>>)

\* SearchQuery.remove()
SearchQueryRemove(q) ==
    Invoke(q.searchHandler,
           <<JParams(searchHttpParams(q)), JStr("delete"), JNull, getHttpHeaders(q)>>)

\* SearchQuery.patch(resource)
SearchQueryPatch(q, resource) ==
    Invoke(q.searchHandler,
           <<JParams(searchHttpParams(q)), JStr("patch"), resource, getHttpHeaders(q)>>)

(***************************************************************************)
(* What the service does when the transport completes a request: the       *)
(* callbacks each method gives to subscribe.                               *)
(***************************************************************************)
\* the optional hook of the model class (the test's User.onInstantiated)
onInstantiated(item) ==
    [item EXCEPT !.hookCalls = @ + 1, !.hookSaw = item.fields]

\* a faulty variant of Instantiate: the hook runs before the fields are copied
InstantiateHookFirst(data) ==
    LET item == IF hasHook THEN onInstantiated(NewModel) ELSE NewModel
    IN  [item EXCEPT !.fields = Assign(item.fields, data)]

\* `new this.modelClass(); Object.assign(item, data); if (item.onInstantiated) ...`
Instantiate(data) ==
    LET item == [NewModel EXCEPT !.fields = Assign(NewModel.fields, data)]
    IN  IF hasHook THEN onInstantiated(item) ELSE item

\* a faulty variant of generateListResponse: `result.data = items` is left out,
\* so the envelope keeps its raw records
generateListResponseRaw(result) ==
    IF result.kind = "null" THEN [threw |-> "TypeError", value |-> NoValue]
    ELSE [threw |-> "",
          value |-> ListValue(result.hasData,
                              [i \in 1..Len(result.data) |->
                                  [NoInstance EXCEPT !.fields = result.data[i]]],
                              result.hasMeta, result.count)]

\* generateListResponse(result); reading result.data of a null body throws
generateListResponse(result) ==
    IF result.kind = "null" THEN [threw |-> "TypeError", value |-> NoValue]
    ELSE [threw |-> "",
          value |-> IF result.hasData
                    THEN ListValue(TRUE,
                                   [i \in 1..Len(result.data) |-> Instantiate(result.data[i])],
                                   result.hasMeta, result.count)
                    ELSE ListValue(FALSE, <<>>, result.hasMeta, result.count)]

Resolve(r, v) == [r EXCEPT !.promise = "resolved", !.value = v]
\* a faulty variant of Reject: the error is wrapped in a new one
RejectWrapped(r, e) == [r EXCEPT !.promise = "rejected", !.reason = "Error: " \o e]

Reject(r, e) == [r EXCEPT !.promise = "rejected", !.reason = e]

\* list: `res(this.generateListResponse(result))`.  An exception thrown by the
\* callback is not passed to the error callback: neither res nor rej runs.
listNext(o, r, result) ==
    LET g == generateListResponse(result)
    IN  [objs |-> o, req |-> IF g.threw # "" THEN r ELSE Resolve(r, g.value)]

\* get
getNext(o, r, data) ==
    [objs |-> o, req |-> Resolve(r, ItemValue(Instantiate(data.fields)))]

\* create: `Object.assign(resource, data); res(resource)`
createNext(o, r, data) ==
    [objs |-> [o EXCEPT ![r.target] = Assign(@, data.fields)],
     req |-> Resolve(r, RefValue(r.target))]

\* a faulty variant of updateNext: the response replaces the object's fields
\* instead of being merged into them
updateReplaces(o, r, data) ==
    [objs |-> IF data.kind # "null" THEN [o EXCEPT ![r.target] = data.fields] ELSE o,
     req |-> Resolve(r, RefValue(r.target))]

\* update: `if (data) { Object.assign(resource, data); } res(resource)`
updateNext(o, r, data) ==
    [objs |-> IF data.kind # "null"
              THEN [o EXCEPT ![r.target] = Assign(@, data.fields)] ELSE o,
     req |-> Resolve(r, RefValue(r.target))]

\* a faulty variant of patchNext: fields the object already has are kept
patchKeepsExisting(o, r, data) ==
    [objs |-> IF data.kind # "null"
              THEN [o EXCEPT ![r.target] = Assign(data.fields, @)] ELSE o,
     req |-> Resolve(r, RefValue(r.target))]

\* patch: `if (data) { Object.assign(resource, data); } res(resource)`
patchNext(o, r, data) ==
    [objs |-> IF data.kind # "null"
              THEN [o EXCEPT ![r.target] = Assign(@, data.fields)] ELSE o,
     req |-> Resolve(r, RefValue(r.target))]

\* a faulty variant of removeNext: the promise resolves with the response body
removeResolvesBody(o, r, data) ==
    [objs |-> o, req |-> Resolve(r, RawValue(data))]

\* a faulty variant of removeNext: the response is merged into the object
removeMerges(o, r, data) ==
    [objs |-> [o EXCEPT ![r.target] = Assign(@, data.fields)],
     req |-> Resolve(r, RefValue(r.target))]

\* remove: `res(resource)`
removeNext(o, r, data) ==
    [objs |-> o, req |-> Resolve(r, RefValue(r.target))]

\* a faulty variant of searchNext: patch and delete resolve with the response body
searchResolvesBody(o, r, result) ==
    IF r.verb = "GET" THEN listNext(o, r, result)
    ELSE [objs |-> o, req |-> Resolve(r, RawValue(result))]

\* search: the list callback for method get, `res()` for patch and delete
searchNext(o, r, result) ==
    IF r.verb = "GET" THEN listNext(o, r, result)
    ELSE [objs |-> o, req |-> Resolve(r, VoidValue)]

\* a faulty variant of uploadNext: a data list in the response is materialized
uploadMaterializes(o, r, data) == listNext(o, r, data)

\* upload and uploadFor: `res(data)`
uploadNext(o, r, data) ==
    [objs |-> o, req |-> Resolve(r, RawValue(data))]

RawOps == {"rawGet", "rawPost", "rawPut", "rawPatch", "rawDelete"}

\* the raw methods: `.toPromise()` resolves with the body the transport emits
rawNext(o, r, data) ==
    [objs |-> o, req |-> Resolve(r, RawValue(data))]

\* a faulty variant of Settle: a failed request empties the object it was for
SettleClearing(S, i, out) ==
    LET r == [S.reqs[i] EXCEPT !.status = "done", !.ok = out.ok,
                               !.response = out.body, !.error = out.error]
        n == IF ~out.ok
             THEN [objs |-> IF r.target = 0 THEN S.objs
                            ELSE [S.objs EXCEPT ![r.target] = EmptyRec],
                   req |-> Reject(r, out.error)]
             ELSE CASE r.op = "list" -> listNext(S.objs, r, out.body)
                    [] r.op = "get" -> getNext(S.objs, r, out.body)
                    [] r.op = "create" -> createNext(S.objs, r, out.body)
                    [] r.op = "update" -> updateNext(S.objs, r, out.body)
                    [] r.op = "patch" -> patchNext(S.objs, r, out.body)
                    [] r.op = "remove" -> removeNext(S.objs, r, out.body)
                    [] r.op = "search" -> searchNext(S.objs, r, out.body)
                    [] r.op \in RawOps -> rawNext(S.objs, r, out.body)
                    [] OTHER -> uploadNext(S.objs, r, out.body)
    IN  [objs |-> n.objs, reqs |-> [S.reqs EXCEPT ![i] = n.req]]

\* the transport completes request i of state S = [objs, reqs] with
\* out = [ok, body, error]
Settle(S, i, out) ==
    LET r == [S.reqs[i] EXCEPT !.status = "done", !.ok = out.ok,
                               !.response = out.body, !.error = out.error]
        n == IF ~out.ok THEN [objs |-> S.objs, req |-> Reject(r, out.error)]
             ELSE CASE r.op = "list" -> listNext(S.objs, r, out.body)
                    [] r.op = "get" -> getNext(S.objs, r, out.body)
                    [] r.op = "create" -> createNext(S.objs, r, out.body)
                    [] r.op = "update" -> updateNext(S.objs, r, out.body)
                    [] r.op = "patch" -> patchNext(S.objs, r, out.body)
                    [] r.op = "remove" -> removeNext(S.objs, r, out.body)
                    [] r.op = "search" -> searchNext(S.objs, r, out.body)
                    [] r.op \in RawOps -> rawNext(S.objs, r, out.body)
                    [] OTHER -> uploadNext(S.objs, r, out.body)
    IN  [objs |-> n.objs, reqs |-> [S.reqs EXCEPT ![i] = n.req]]

(***************************************************************************)
(* Inputs.                                                                 *)
(***************************************************************************)
BasePath == "/user"      \* the test's User.basePath
\* base URLs given to setBaseUrl ('' is the store's own)
BaseUrls == {"", "https://hello.world"}
ObjRefs == {1, 2}
ArrRefs == {1}
\* ids given to findById and get
Ids == {JNum(0), JNum(5), JStr("")}
\* values given to findWhere and andWhere
FilterValues == {JNum(2), JArr(<<JStr("a"), JStr("b")>>)}
\* numbers given to limit and page
PageNumbers == {0, 0 - 1, 5}
NoOpts == <<JUndef, JUndef>>
SomeOpts == <<JParams(<<<<"q", "1">>>>), JHeaders(<<<<"h", "1">>>>)>>
\* the entries given to generateIndex
Entries ==
    {Rec(JNum(1), JStr("a")), Rec(JStr("1"), JStr("b")), Rec(JNum(2), JStr("c")),
     Rec(JStr("x"), JStr("d")), Rec(JNum(2), JStr("e"))}
EntryLists == UNION {[1..n -> Entries] : n \in 0..MaxEntries}
\* paths given to the raw methods (undefined: the argument left out)
RawPaths == {JUndef, JStr(""), JStr("admin")}
Errors == {"e1"}
\* a second error, to tell the error of one request from another's
OtherErrors == {"e2"}

Row1 == Rec(JNum(7), JStr("b"))
Row2 == Rec(JUndef, JStr("c"))
\* the bodies a server sends for one resource: none, {}, or some fields
RecordBodies == {NullBody, RecBody(EmptyRec), RecBody(Row1), RecBody(Row2)}
\* the bodies a server sends for a list: none, {}, or an envelope
EnvelopeBodies ==
    {NullBody, EnvBody(FALSE, <<>>, FALSE, 0), EnvBody(TRUE, <<>>, TRUE, 0),
     EnvBody(TRUE, <<Row1, Row2>>, TRUE, 2)}
\* the bodies drawn for a request, by what its endpoint returns
BodiesFor(r) ==
    CASE r.op = "list" \/ (r.op = "search" /\ r.verb = "GET") -> EnvelopeBodies
      [] r.op \in {"search", "upload", "uploadFor"} ->
            {NullBody, EnvBody(TRUE, <<Row1, Row2>>, TRUE, 2)}
      [] r.op = "remove" -> {NullBody, RecBody(Row1)}
      [] r.op \in RawOps ->
            {NullBody, RecBody(Row1), EnvBody(TRUE, <<Row1, Row2>>, TRUE, 2)}
      [] OTHER -> RecordBodies

\* no call of generateIndex made yet
NoIndex == [entries |-> <<>>, result |-> <<>>, called |-> FALSE]

(***************************************************************************)
(* The state after construction.                                           *)
(***************************************************************************)
\* the service constructed while the configuration store held one of `urls`
InitAt(urls, hooks, optss) ==
    /\ configUrl \in urls
    /\ apiUrl = configUrl \o BasePath
    /\ hasHook \in hooks
    /\ opts \in optss
    /\ arrs = [a \in ArrRefs |-> <<JStr("a1"), JStr("a2")>>]
    /\ builders = [b \in BuilderIds |-> NoBuilder]
    /\ objs = [o \in ObjRefs |-> IF o = 1 THEN Rec(JNum(1), JStr("a"))
                                          ELSE Rec(JUndef, JStr("n"))]
    /\ ret = 0
    /\ index = NoIndex
    /\ reqs = <<>>
    /\ calls = <<>>

\* the service constructed with the configuration store as it is made: url = ''
InitWith(hooks, optss) == InitAt({""}, hooks, optss)

Init == InitWith(BOOLEAN, {NoOpts, SomeOpts})

(***************************************************************************)
(* ResourceConfigService.                                                  *)
(***************************************************************************)
\* setBaseUrl(url): `this.url = url`
SetBaseUrl ==
    /\ \E url \in BaseUrls \ {configUrl} : configUrl' = url
    /\ UNCHANGED <<apiUrl, hasHook, ret, index, arrs, builders, objs, opts, reqs, calls>>

(***************************************************************************)
(* The factory methods of ResourceService.                                 *)
(***************************************************************************)
Made(q, factory, f, v) == [q EXCEPT !.origin = [factory |-> factory, f |-> f, v |-> v]]

\* findAll(): `new GetQuery(this.list.bind(this))`
findAll == NewGetQuery(JFn("list"), JUndef)

\* findById(id): `new GetQuery(this.get.bind(this), id)`
findById(id) == NewGetQuery(JFn("get"), id)

\* findWhere(field, value): `new SearchQuery(this.search.bind(this), field, value)`
findWhere(field, value) == NewSearchQuery(JFn("search"), JStr(field), value)

FindAll(b) ==
    /\ builders[b] = NoBuilder
    /\ builders' = [builders EXCEPT ![b] = Made(findAll, "findAll", "", JUndef)]
    /\ UNCHANGED <<configUrl, apiUrl, hasHook, ret, index, arrs, objs, opts, reqs, calls>>

FindById(b) ==
    /\ builders[b] = NoBuilder
    /\ \E id \in Ids :
         builders' = [builders EXCEPT ![b] = Made(findById(id), "findById", "", id)]
    /\ UNCHANGED <<configUrl, apiUrl, hasHook, ret, index, arrs, objs, opts, reqs, calls>>

FindWhere(b) ==
    /\ builders[b] = NoBuilder
    /\ \E v \in FilterValues :
         builders' = [builders EXCEPT ![b] = Made(findWhere("id", v), "findWhere", "id", v)]
    /\ UNCHANGED <<configUrl, apiUrl, hasHook, ret, index, arrs, objs, opts, reqs, calls>>

\* findWhere(field, array) with an array the caller keeps; the history records
\* the array's elements at the time of the call
FindWhereArray(b) ==
    /\ builders[b] = NoBuilder
    /\ \E a \in ArrRefs :
         builders' = [builders EXCEPT
            ![b] = Made(findWhere("id", JArrRef(a)), "findWhere", "id", JArr(arrs[a]))]
    /\ UNCHANGED <<configUrl, apiUrl, hasHook, ret, index, arrs, objs, opts, reqs, calls>>

\* the caller changes an element of its array: `values[0] = 'z'`
ChangeArray ==
    /\ \E a \in ArrRefs :
         /\ arrs[a][1] # JStr("z")
         /\ arrs' = [arrs EXCEPT ![a][1] = JStr("z")]
    /\ UNCHANGED <<configUrl, apiUrl, hasHook, ret, index, builders, objs, opts, reqs, calls>>

(***************************************************************************)
(* Modifier calls on a builder.                                            *)
(***************************************************************************)
\* a faulty variant of Modify: the field selection is one array shared by all
\* the builders of the service
ModifyShared(b, q) ==
    /\ builders[b] # NoBuilder
    /\ builders[b].mods < MaxMods
    /\ builders' = [b2 \in BuilderIds |->
                        IF b2 = b THEN [q EXCEPT !.mods = @ + 1]
                        ELSE IF builders[b2] = NoBuilder THEN NoBuilder
                        ELSE [builders[b2] EXCEPT !.onlyFields = q.onlyFields]]
    /\ ret' = b
    /\ UNCHANGED <<configUrl, apiUrl, hasHook, index, arrs, objs, opts, reqs, calls>>

Modify(b, q) ==
    /\ builders[b] # NoBuilder
    /\ builders[b].mods < MaxMods
    /\ builders' = [builders EXCEPT ![b] = [q EXCEPT !.mods = @ + 1]]
    /\ ret' = b      \* `return this`
    /\ UNCHANGED <<configUrl, apiUrl, hasHook, index, arrs, objs, opts, reqs, calls>>

Only(b) == Modify(b, only(builders[b], <<"id", "name">>))

Limit(b) == \E n \in PageNumbers : Modify(b, limit(builders[b], n))

Page(b) == \E n \in PageNumbers \ {0 - 1} : Modify(b, page(builders[b], n))

\* the arguments given to orderBy: the direction left out, or given
OrderArgs == {<<"id", JUndef>>, <<"name", JStr("desc")>>}

OrderBy(b) == \E o \in OrderArgs : Modify(b, orderBy(builders[b], o[1], o[2]))

\* the values given to header: a string, or an array of strings
HeaderValues == {JStr("1"), JArr(<<JStr("v1"), JStr("v2")>>)}

Header(b) == \E v \in HeaderValues : Modify(b, header(builders[b], "x", v))

Fresh(b) == Modify(b, fresh(builders[b]))

AndWhere(b) ==
    /\ builders[b] # NoBuilder
    /\ builders[b].isSearch
    /\ \E fv \in {<<"id", JNum(3)>>, <<"name", JArr(<<JStr("a"), JStr("b")>>)>>,
                    <<"limit", JNum(9)>>} :
          Modify(b, andWhere(builders[b], fv[1], fv[2]))

\* andWhere(field, array) with an array the caller keeps
AndWhereArray(b) ==
    /\ builders[b] # NoBuilder
    /\ builders[b].isSearch
    /\ \E a \in ArrRefs : Modify(b, andWhere(builders[b], "name", JArrRef(a)))

(***************************************************************************)
(* Terminal calls on a builder, and calls of the service's methods.        *)
(***************************************************************************)
\* a faulty variant of Call: the terminal call uses up the builder's headers
CallClearing(b, op, outcome) ==
    /\ Len(calls) < MaxCalls
    /\ calls' = Append(calls,
          [b |-> b, op |-> op,
           q |-> IF b = 0 THEN NoBuilder ELSE builders[b],
           threw |-> outcome.threw,
           req |-> IF outcome.threw = "" THEN Len(reqs) + 1 ELSE 0])
    /\ reqs' = IF outcome.threw = "" THEN Append(reqs, outcome.req) ELSE reqs
    /\ builders' = IF b = 0 THEN builders ELSE [builders EXCEPT ![b].headers = <<>>]
    /\ UNCHANGED <<configUrl, apiUrl, hasHook, ret, index, arrs, objs, opts>>

\* the call `op` made on builder b (0: on the service) came out as `outcome`
Call(b, op, outcome) ==
    /\ Len(calls) < MaxCalls
    /\ calls' = Append(calls,
          [b |-> b, op |-> op,
           q |-> IF b = 0 THEN NoBuilder ELSE builders[b],   \* the builder as it was
           threw |-> outcome.threw,
           req |-> IF outcome.threw = "" THEN Len(reqs) + 1 ELSE 0])
    /\ reqs' = IF outcome.threw = "" THEN Append(reqs, outcome.req) ELSE reqs
    /\ UNCHANGED <<configUrl, apiUrl, hasHook, ret, index, arrs, builders, objs, opts>>

Get(b) ==
    /\ builders[b] # NoBuilder
    /\ Call(b, "get", IF builders[b].isSearch THEN SearchQueryGet(builders[b])
                                              ELSE GetQueryGet(builders[b]))

Remove(b) ==
    /\ builders[b] # NoBuilder
    /\ builders[b].isSearch
    /\ Call(b, "remove", SearchQueryRemove(builders[b]))

Patch(b) ==
    /\ builders[b] # NoBuilder
    /\ builders[b].isSearch
    /\ Call(b, "patch", SearchQueryPatch(builders[b], JObj(1)))

CallList == Call(0, "list", Issued(list(opts[1], opts[2])))

CallGet == Call(0, "get", Issued(get(JNum(5), opts[1], opts[2])))

CallCreate == Call(0, "create", Issued(create(2, opts[1], opts[2])))

CallUpdate == \E o \in ObjRefs : Call(0, "update", Issued(update(o, opts[1], opts[2])))

CallPatch == Call(0, "patch", Issued(patch(1, opts[1], opts[2])))

CallRemove == Call(0, "remove", Issued(remove(2, opts[1], opts[2])))

CallSearch ==
    \E m \in {JUndef, JStr("patch"), JStr("delete")} :
        Call(0, "search",
             Issued(search(JParams(<<<<"id", "2">>>>), m,
                           IF m = JStr("patch") THEN JObj(1) ELSE JUndef, opts[2])))

\* a call of generateIndex: its argument afterwards, and what it returned
GenerateIndex ==
    /\ \E entries \in EntryLists :
          index' = [entries |-> entries, result |-> generateIndex(entries), called |-> TRUE]
    /\ UNCHANGED <<configUrl, apiUrl, hasHook, ret, arrs, builders, objs, opts, reqs, calls>>

CallRawGet(path) == Call(0, "rawGet", Issued(rawGet(path, opts)))

CallRawPost(path) == Call(0, "rawPost", Issued(rawPost(path, JObj(1), opts)))

CallRawPut(path) == Call(0, "rawPut", Issued(rawPut(path, JObj(1), opts)))

CallRawPatch(path) == Call(0, "rawPatch", Issued(rawPatch(path, JObj(1), opts)))

CallRawDelete(path) == Call(0, "rawDelete", Issued(rawDelete(path, opts)))

CallUpload == Call(0, "upload", Issued(upload(FormData, opts[1], opts[2])))

CallUploadFor == Call(0, "uploadFor", Issued(uploadFor(1, FormData, opts[1], opts[2])))

(***************************************************************************)
(* The transport completes a request in flight.                            *)
(***************************************************************************)
Complete(i, out) ==
    LET S == Settle([objs |-> objs, reqs |-> reqs], i, out)
    IN  /\ reqs[i].status = "inflight"
        /\ objs' = S.objs
        /\ reqs' = S.reqs
        /\ UNCHANGED <<configUrl, apiUrl, hasHook, ret, index, arrs, builders, opts, calls>>

Ok(body) == [ok |-> TRUE, body |-> body, error |-> ""]
Failed(e) == [ok |-> FALSE, body |-> NullBody, error |-> e]

RespondOk == \E i \in 1..Len(reqs) : \E body \in BodiesFor(reqs[i]) : Complete(i, Ok(body))

RespondError == \E i \in 1..Len(reqs) : \E e \in Errors : Complete(i, Failed(e))

RespondOtherError ==
    \E i \in 1..Len(reqs) : \E e \in OtherErrors : Complete(i, Failed(e))

(***************************************************************************)
(* Specifications.                                                         *)
(***************************************************************************)
\* the builders: factory, modifier and terminal calls on one builder
NextQuery ==
    \E b \in {1} :
        \/ FindAll(b) \/ FindById(b) \/ FindWhere(b)
        \/ Only(b) \/ Limit(b) \/ Page(b) \/ OrderBy(b) \/ Header(b) \/ Fresh(b)
        \/ AndWhere(b)
        \/ Get(b) \/ Remove(b) \/ Patch(b)

SpecQuery == InitWith({TRUE}, {NoOpts}) /\ [][NextQuery]_vars

\* the service's methods and the transport
NextService ==
    \/ CallList \/ CallGet \/ CallCreate \/ CallUpdate \/ CallPatch \/ CallRemove
    \/ CallSearch \/ CallUpload \/ CallUploadFor
    \/ RespondOk \/ RespondError

SpecService == InitWith(BOOLEAN, {NoOpts}) /\ [][NextService]_vars

\* one builder: its factory call and the modifier calls made on it
NextBuilder ==
    \E b \in {1} :
        \/ FindAll(b) \/ FindById(b) \/ FindWhere(b)
        \/ Only(b) \/ Limit(b) \/ Page(b) \/ OrderBy(b) \/ Header(b) \/ Fresh(b)
        \/ AndWhere(b)

SpecBuilder == InitWith({TRUE}, {NoOpts}) /\ [][NextBuilder]_vars

\* a service constructed under some base URL, and the store changed afterwards
NextConfig ==
    \/ SetBaseUrl
    \/ CallList \/ CallGet
    \/ \E b \in {1} : FindAll(b) \/ Only(b) \/ Get(b)

SpecConfig == InitAt(BaseUrls, {TRUE}, {NoOpts}) /\ [][NextConfig]_vars

\* the writes that merge the response into the caller's object
NextWrites == CallCreate \/ CallUpdate \/ CallPatch \/ RespondOk

SpecWrites == InitWith({TRUE}, {NoOpts}) /\ [][NextWrites]_vars

\* the index utility
NextIndex == GenerateIndex

SpecIndex == InitWith({TRUE}, {NoOpts}) /\ [][NextIndex]_vars

\* the raw methods and the transport
NextRaw ==
    \/ \E path \in RawPaths :
          \/ CallRawGet(path) \/ CallRawPost(path) \/ CallRawPut(path)
          \/ CallRawPatch(path) \/ CallRawDelete(path)
    \/ RespondOk \/ RespondError

SpecRaw == InitWith({TRUE}, {NoOpts, SomeOpts}) /\ [][NextRaw]_vars

\* the two upload methods and the transport
NextUpload == CallUpload \/ CallUploadFor \/ RespondOk \/ RespondError

SpecUpload == InitWith(BOOLEAN, {NoOpts, SomeOpts}) /\ [][NextUpload]_vars

\* two builders of one service
NextTwoBuilders ==
    \/ \E b \in BuilderIds : FindAll(b) \/ Only(b) \/ Get(b)
    \/ Header(2) \/ FindById(2) \/ FindWhere(2)

SpecTwoBuilders == InitWith({TRUE}, {NoOpts}) /\ [][NextTwoBuilders]_vars

\* a search builder whose filter values are arrays the caller goes on changing
NextFilter ==
    \/ \E b \in {1} :
          \/ FindWhereArray(b) \/ AndWhereArray(b)
          \/ Get(b) \/ Remove(b) \/ Patch(b)
    \/ ChangeArray

SpecFilter == InitWith({TRUE}, {NoOpts}) /\ [][NextFilter]_vars

\* the service's methods called with and without params and headers
NextRequests ==
    \/ CallList \/ CallGet \/ CallCreate \/ CallUpdate \/ CallPatch \/ CallRemove
    \/ CallSearch \/ CallUpload \/ CallUploadFor

SpecRequests == InitWith({TRUE}, {NoOpts, SomeOpts}) /\ [][NextRequests]_vars

\* the service's methods and a transport that fails in more than one way
NextFailure == NextService \/ RespondOtherError

SpecFailure == InitWith({TRUE}, {NoOpts}) /\ [][NextFailure]_vars

Next == NextQuery \/ NextService

Spec == Init /\ [][Next]_vars

(***************************************************************************)
(* Properties of the builders (checked under SpecQuery).                   *)
(***************************************************************************)
BuilderCalls == {i \in 1..Len(calls) : calls[i].b # 0}
HasParam(p, k) == \E i \in 1..Len(p) : p[i][1] = k
ParamValue(p, k) == (CHOOSE e \in {p[i] : i \in 1..Len(p)} : e[1] = k)[2]
VerbOf(op) == CASE op = "get" -> "GET" [] op = "remove" -> "DELETE" [] OTHER -> "PATCH"

\* C1: findWhere(f, v) followed at once by get(), remove() or patch(r) issues one
\* request to apiUrl + '/search' with verb GET, DELETE or PATCH, whose query
\* carries f = stringified v, and whose body is r for patch and absent
\* otherwise.
C1_FindWhereIssuesSearch ==
    \A i \in BuilderCalls :
        LET c == calls[i] IN
        (c.q.origin.factory = "findWhere" /\ c.q.mods = 0) =>
            /\ c.threw = ""
            /\ c.req # 0
            /\ reqs[c.req].url = apiUrl \o "/search"
            /\ reqs[c.req].verb = VerbOf(c.op)
            /\ reqs[c.req].params.t = "HttpParams"
            /\ HasParam(reqs[c.req].params.a, c.q.origin.f)
            /\ ParamValue(reqs[c.req].params.a, c.q.origin.f) = JToString(c.q.origin.v)
            /\ reqs[c.req].body = IF c.op = "patch" THEN JObj(1) ELSE JUndef

\* C2: findById(id).get() calls the single-resource delegate with
\* (id, params, headers) and issues GET apiUrl/id, for every id including 0
\* and ''; findAll().get() calls the list delegate with (params, headers) and
\* issues GET apiUrl.
C2_GetDelegates ==
    \A i \in BuilderCalls :
        LET c == calls[i] IN
        /\ c.q.origin.factory = "findById" =>
              /\ c.threw = ""
              /\ reqs[c.req].op = "get"
              /\ reqs[c.req].verb = "GET"
              /\ reqs[c.req].url = apiUrl \o "/" \o JToString(c.q.origin.v)
              /\ reqs[c.req].params = JParams(getHttpParams(c.q))
              /\ reqs[c.req].headers = getHttpHeaders(c.q)
        /\ c.q.origin.factory = "findAll" =>
              /\ c.threw = ""
              /\ reqs[c.req].op = "list"
              /\ reqs[c.req].verb = "GET"
              /\ reqs[c.req].url = apiUrl
              /\ reqs[c.req].params = JParams(getHttpParams(c.q))
              /\ reqs[c.req].headers = getHttpHeaders(c.q)

\* the filter pairs given to a search builder: the pair given to findWhere,
\* then the pairs given to andWhere, each value stringified
GivenPairs(q) ==
    <<<<q.origin.f, JToString(q.origin.v)>>>>
    \o [i \in 1..(Len(q.searchParams) - 1) |->
          <<JToString(q.searchParams[i + 1].field), q.searchParams[i + 1].value>>]

\* C3: the query a search builder's terminal call sends holds the read
\* parameters and then every filter pair given, in the order given, also when
\* a field name is repeated or is the name of a read parameter.
C3_AllFilterPairsSent ==
    \A i \in BuilderCalls :
        LET c == calls[i] IN
        c.q.isSearch =>
            /\ c.req # 0
            /\ reqs[c.req].params = JParams(getHttpParams(c.q) \o GivenPairs(c.q))

\* C4: the serialized parameters hold limit (page) exactly when limit(n)
\* (page(n)) was called, with the decimal string of the last argument, for
\* every integer n including 0 and negative numbers.
C4_LimitPageSerialized ==
    \A b \in BuilderIds :
        builders[b] # NoBuilder =>
            LET q == builders[b]
                p == getHttpParams(q)
            IN  /\ HasParam(p, "limit") <=> q.limitResult # JUndef
                /\ HasParam(p, "limit") => ParamValue(p, "limit") = ToString(q.limitResult.n)
                /\ HasParam(p, "page") <=> q.pageNumber # JUndef
                /\ HasParam(p, "page") => ParamValue(p, "page") = ToString(q.pageNumber.n)

\* C10: no canonical operation and no terminal call of a builder, a builder
\* from findWhere included, throws or rejects before its request is issued.
C10_NoLocalFailure ==
    \A i \in 1..Len(calls) : calls[i].threw = "" /\ calls[i].req # 0

Last(seq) == seq[Len(seq)]

\* C14: a filter value given to the SearchQuery constructor (by findWhere) or
\* to andWhere is stringified when it is added, an array becoming the
\* comma-joined string of its elements in array order; a change made to the
\* array afterwards changes neither the stored filter nor the filter a later
\* terminal call sends.
C14_FilterStringifiedWhenAdded ==
    /\ [](\A b \in BuilderIds :
            (builders[b] # NoBuilder /\ builders[b].origin.factory = "findWhere") =>
                builders[b].searchParams[1] =
                    [field |-> JStr(builders[b].origin.f),
                     value |-> JToString(builders[b].origin.v)])
    /\ [](\A i \in BuilderCalls :
            LET c == calls[i] IN
            c.q.isSearch =>
                /\ c.req # 0
                /\ reqs[c.req].params.t = "HttpParams"
                /\ HasParam(reqs[c.req].params.a, c.q.origin.f)
                /\ ParamValue(reqs[c.req].params.a, c.q.origin.f) = JToString(c.q.origin.v)
                /\ c.q.mods > 0 =>
                      /\ HasParam(reqs[c.req].params.a, "name")
                      /\ ParamValue(reqs[c.req].params.a, "name")
                            = Last(c.q.searchParams).value)
    /\ [][\A b \in BuilderIds :
            /\ AndWhereArray(b) =>
                  \E a \in ArrRefs :
                      builders'[b].searchParams =
                          Append(builders[b].searchParams,
                                 [field |-> JStr("name"), value |-> JToString(JArr(arrs[a]))])
            /\ (ChangeArray /\ builders[b] # NoBuilder) =>
                  builders'[b].searchParams = builders[b].searchParams]_vars

Live == {b \in BuilderIds : builders[b] # NoBuilder}
Factory(b) == FindAll(b) \/ FindById(b) \/ FindWhere(b)
IsPrefix(s1, s2) == Len(s1) <= Len(s2) /\ SubSeq(s2, 1, Len(s1)) = s1

RECURSIVE ExpectedOrder(_)
\* the JSON text of [field, direction] pairs, without the outer brackets
ExpectedOrder(order) ==
    IF order = <<>> THEN ""
    ELSE "[\"" \o order[1][1] \o "\",\"" \o order[1][2] \o "\"]"
         \o (IF Len(order) > 1 THEN "," ELSE "") \o ExpectedOrder(Tail(order))

OnlyArgs == {<<>>, <<"name">>, <<"id", "name">>, <<"id", "id">>}

\* C16: only(...) appends its arguments to the field selection in argument
\* order without removing duplicates; the only parameter is the comma-joined
\* concatenation of all arguments in call order, and it is left out when no
\* field was ever added.
C16_OnlyAccumulates ==
    /\ [](\A b \in Live :
            LET q == builders[b]
                p == getHttpParams(q)
            IN  /\ HasParam(p, "only") <=> q.onlyFields # <<>>
                /\ HasParam(p, "only") => ParamValue(p, "only") = Join(q.onlyFields, ",")
                /\ \A fs \in OnlyArgs :
                      LET q2 == only(q, fs)
                          p2 == getHttpParams(q2)
                      IN  /\ q2.onlyFields = q.onlyFields \o fs
                          /\ HasParam(p2, "only") <=> (q.onlyFields \o fs) # <<>>)
    /\ [][\A b \in BuilderIds :
            /\ Factory(b) => builders'[b].onlyFields = <<>>
            /\ Only(b) => builders'[b].onlyFields = builders[b].onlyFields \o <<"id", "name">>
            /\ (Limit(b) \/ Page(b) \/ OrderBy(b) \/ Header(b) \/ Fresh(b) \/ AndWhere(b)) =>
                  builders'[b].onlyFields = builders[b].onlyFields]_vars

C16_Witness ==
    \E b \in Live :
        /\ builders[b].onlyFields = <<"id", "name", "id", "name">>
        /\ ParamValue(getHttpParams(builders[b]), "only") = "id,name,id,name"

Keys(h) == {h[i][1] : i \in 1..Len(h)}
ValueOf(h, k) == (CHOOSE e \in {h[i] : i \in 1..Len(h)} : e[1] = k)[2]
HeaderKeys == {"x", "no-cache"}

\* C18: after any sequence of header(k, v) and fresh() calls the header
\* serialization is null if and only if neither was ever called; otherwise it
\* is a map with exactly the keys that were set, each with the value of the
\* last call for that key, fresh() counting as header('no-cache', '1').
C18_HeaderSerialization ==
    /\ [](\A b \in Live :
            LET q == builders[b]
                h == getHttpHeaders(q)
            IN  /\ h = JNull <=> q.headers = <<>>
                /\ h # JNull =>
                      /\ h.t = "HttpHeaders"
                      /\ Len(h.a) = Cardinality(Keys(h.a))
                      /\ Keys(h.a) = Keys(q.headers)
                      /\ \A k \in Keys(h.a) :
                            ValueOf(h.a, k) = JToString(ValueOf(q.headers, k))
                /\ fresh(q) = header(q, "no-cache", JStr("1"))
                /\ \A k \in HeaderKeys, v \in HeaderValues :
                      LET q2 == header(q, k, v)
                      IN  /\ Keys(q2.headers) = Keys(q.headers) \cup {k}
                          /\ Len(q2.headers) = Cardinality(Keys(q2.headers))
                          /\ ValueOf(q2.headers, k) = v
                          /\ \A k2 \in Keys(q.headers) \ {k} :
                                ValueOf(q2.headers, k2) = ValueOf(q.headers, k2)
                          /\ getHttpHeaders(q2) # JNull)
    /\ [][\A b \in BuilderIds :
            /\ Factory(b) => builders'[b].headers = <<>>
            /\ Header(b) =>
                  \E v \in HeaderValues : builders'[b] = [header(builders[b], "x", v)
                                                            EXCEPT !.mods = @ + 1]
            /\ Fresh(b) => builders'[b] = [header(builders[b], "no-cache", JStr("1"))
                                              EXCEPT !.mods = @ + 1]
            /\ (Only(b) \/ Limit(b) \/ Page(b) \/ OrderBy(b) \/ AndWhere(b)) =>
                  builders'[b].headers = builders[b].headers]_vars

C18_Witness ==
    \E b \in Live :
        /\ builders[b].headers = <<<<"x", JArr(<<JStr("v1"), JStr("v2")>>)>>,
                                   <<"no-cache", JStr("1")>>>>
        /\ getHttpHeaders(builders[b])
              = JHeaders(<<<<"x", "v1,v2">>, <<"no-cache", "1">>>>)

\* C17: serialization is a pure read of the builder: a terminal call (and the
\* getHttpParams and getHttpHeaders it runs) leaves every field of the builder
\* as it was, and two terminal calls of the same kind with no modifier call
\* between them have the same outcome and send identical requests.
C17_SerializationIsPureRead ==
    /\ \A i \in BuilderCalls :
          LET c == calls[i] IN
          builders[c.b].mods = c.q.mods => builders[c.b] = c.q
    /\ \A i, j \in BuilderCalls :
          (calls[i].b = calls[j].b /\ calls[i].op = calls[j].op
           /\ calls[i].q.mods = calls[j].q.mods) =>
              /\ calls[i].q = calls[j].q
              /\ calls[i].threw = calls[j].threw
              /\ (calls[i].req = 0) <=> (calls[j].req = 0)
              /\ calls[i].req # 0 => reqs[calls[i].req] = reqs[calls[j].req]

C17_Witness ==
    \E i, j \in BuilderCalls :
        /\ i < j /\ calls[i].op = "get" /\ calls[j].op = "get"
        /\ calls[i].q.origin.factory = "findAll"
        /\ calls[i].q.headers # <<>> /\ calls[i].q.orderByFields # <<>>
        /\ calls[i].q = calls[j].q
        /\ calls[i].req # 0 /\ calls[j].req # 0 /\ calls[i].req # calls[j].req
        /\ reqs[calls[i].req] = reqs[calls[j].req]
        /\ reqs[calls[i].req].headers # JNull

Modifier(b) ==
    Only(b) \/ Limit(b) \/ Page(b) \/ OrderBy(b) \/ Header(b) \/ Fresh(b) \/ AndWhere(b)

\* what the builder has accumulated is still there in q2
KeepsAll(q, q2) ==
    /\ IsPrefix(q.onlyFields, q2.onlyFields)
    /\ IsPrefix(q.orderByFields, q2.orderByFields)
    /\ IsPrefix(q.searchParams, q2.searchParams)
    /\ Keys(q.headers) \subseteq Keys(q2.headers)
    /\ q.limitResult # JUndef => q2.limitResult # JUndef
    /\ q.pageNumber # JUndef => q2.pageNumber # JUndef
    /\ q2.id = q.id /\ q2.getHandler = q.getHandler /\ q2.searchHandler = q.searchHandler

\* C22: every modifier (only, limit, page, orderBy, header, fresh, andWhere)
\* returns the very builder it was called on and keeps what the builder had
\* accumulated, and a terminal call sends the parameters and headers of all
\* the modifier calls made on that builder before it.
C22_ModifiersAccumulate ==
    /\ [][\A b \in BuilderIds :
            Modifier(b) => /\ ret' = b
                           /\ KeepsAll(builders[b], builders'[b])]_vars
    /\ [](\A i \in BuilderCalls :
            LET c == calls[i] IN
            /\ c.threw = ""
            /\ c.req # 0
            /\ reqs[c.req].params = JParams(IF c.q.isSearch THEN searchHttpParams(c.q)
                                                             ELSE getHttpParams(c.q))
            /\ reqs[c.req].headers = getHttpHeaders(c.q))

\* C23: every call to findAll, findById or findWhere returns a new builder
\* whose field selection, pagination, ordering and headers start empty, and a
\* modifier call on one builder never changes the state of, or the request
\* sent by, any other builder of the same service.
C23_BuilderOwnsState ==
    /\ [][\A b \in BuilderIds :
            /\ Factory(b) =>
                  /\ builders[b] = NoBuilder
                  /\ builders'[b].onlyFields = <<>>
                  /\ builders'[b].limitResult = JUndef
                  /\ builders'[b].pageNumber = JUndef
                  /\ builders'[b].orderByFields = <<>>
                  /\ builders'[b].headers = <<>>
            /\ (Factory(b) \/ Modifier(b) \/ Get(b) \/ Remove(b) \/ Patch(b)) =>
                  \A b2 \in BuilderIds \ {b} : builders'[b2] = builders[b2]
            /\ Modifier(b) => reqs' = reqs]_vars
    /\ [](\A i \in BuilderCalls :
            LET c == calls[i] IN
            /\ builders[c.b].mods = c.q.mods => builders[c.b] = c.q
            /\ \A j \in BuilderCalls :
                  calls[j].q = c.q =>
                      /\ (calls[j].req = 0) = (c.req = 0)
                      /\ c.req # 0 =>
                            /\ reqs[calls[j].req].verb = reqs[c.req].verb
                            /\ reqs[calls[j].req].url = reqs[c.req].url
                            /\ reqs[calls[j].req].params = reqs[c.req].params
                            /\ reqs[calls[j].req].headers = reqs[c.req].headers
            /\ (c.req # 0 /\ c.q.origin.factory = "findAll") =>
                  /\ reqs[c.req].params = JParams(getHttpParams(c.q))
                  /\ reqs[c.req].headers = getHttpHeaders(c.q))

C23_Witness ==
    /\ builders[1] # NoBuilder /\ builders[2] # NoBuilder
    /\ builders[1].origin.factory = "findAll" /\ builders[2].origin.factory = "findAll"
    /\ builders[1].onlyFields = <<"id", "name">> /\ builders[1].headers = <<>>
    /\ builders[2].onlyFields = <<>> /\ builders[2].headers # <<>>
    /\ \E i, j \in BuilderCalls :
          /\ calls[i].b = 1 /\ calls[j].b = 2 /\ i < j
          /\ reqs[calls[i].req].params = JParams(<<<<"only", "id,name">>>>)
          /\ reqs[calls[i].req].headers = JNull
          /\ reqs[calls[j].req].params = JParams(<<>>)
          /\ reqs[calls[j].req].headers # JNull

\* C12: in any sequence of factory calls (findAll, findById, findWhere),
\* modifier calls and terminal calls, the number of HTTP requests issued is
\* the number of terminal calls made: factory and modifier calls issue none,
\* and each terminal call, a repeated one on the same builder too, issues one.
C12_OneRequestPerTerminalCall ==
    /\ Len(reqs) = Cardinality(BuilderCalls)
    /\ \A i \in BuilderCalls : calls[i].req # 0

(***************************************************************************)
(* Properties of the service's methods (checked under SpecService, and     *)
(* under SpecFailure where the error matters).                             *)
(***************************************************************************)
Done(i) == reqs[i].status = "done"
Succeeded(i) == Done(i) /\ reqs[i].ok
InFlight(i) == reqs[i].status = "inflight"
WriteOps == {"create", "update", "patch"}

\* an instance of the model class made from raw record `row`: every field
\* copied, and the hook, when the class declares one, run once and after
\* the copy
MaterializedFrom(item, row) ==
    /\ item.class = "Model"
    /\ item.fields = row
    /\ item.hookCalls = IF hasHook THEN 1 ELSE 0
    /\ hasHook => item.hookSaw = row

\* C5: get resolves with a new model instance carrying every field of the
\* raw record, its onInstantiated hook (when declared) run exactly once,
\* after the fields are assigned and before the promise resolves.
C5_GetMaterializes ==
    \A i \in 1..Len(reqs) :
        (reqs[i].op = "get" /\ Succeeded(i)) =>
            /\ reqs[i].promise = "resolved"
            /\ reqs[i].value.kind = "item"
            /\ MaterializedFrom(reqs[i].value.item, reqs[i].response.fields)

C5_Witness ==
    \E i \in 1..Len(reqs) :
        /\ reqs[i].op = "get" /\ Succeeded(i) /\ hasHook
        /\ reqs[i].response = RecBody(Row1)
        /\ reqs[i].promise = "resolved"
        /\ reqs[i].value.item.hookCalls = 1

\* C6: list and search with verb get resolve an envelope with data into an
\* envelope of as many model instances, in the same order, each carrying its
\* record's fields with the hook run once, and with the meta the server
\* sent; an envelope without data stays without data.
C6_ListMaterializes ==
    \A i \in 1..Len(reqs) :
        LET r == reqs[i] IN
        (/\ r.op = "list" \/ (r.op = "search" /\ r.verb = "GET")
         /\ Succeeded(i)
         /\ r.response.kind = "envelope") =>
            /\ r.promise = "resolved"
            /\ r.value.kind = "list"
            /\ r.value.hasData = r.response.hasData
            /\ Len(r.value.data) = Len(r.response.data)
            /\ \A k \in 1..Len(r.response.data) :
                  MaterializedFrom(r.value.data[k], r.response.data[k])
            /\ r.value.hasMeta = r.response.hasMeta
            /\ r.value.count = r.response.count

C6_Witness ==
    \E i, j \in 1..Len(reqs) :
        /\ reqs[i].op = "list" /\ Succeeded(i)
        /\ reqs[i].response = EnvBody(TRUE, <<Row1, Row2>>, TRUE, 2)
        /\ reqs[i].value.kind = "list" /\ Len(reqs[i].value.data) = 2
        /\ reqs[j].op = "search" /\ reqs[j].verb = "GET" /\ Succeeded(j)
        /\ reqs[j].response = EnvBody(FALSE, <<>>, FALSE, 0)
        /\ reqs[j].promise = "resolved"

\* C7: create, update and patch resolve with the object the caller passed;
\* the fields of the response body overwrite the object's, the other fields
\* keep their value, and an empty or missing body leaves the object as it was.
C7_WriteMerges ==
    [][\A i \in 1..Len(reqs) :
          (/\ reqs[i].op \in WriteOps
           /\ reqs[i].status = "inflight"
           /\ reqs'[i].status = "done"
           /\ reqs'[i].ok) =>
              LET t == reqs[i].target
                  body == reqs'[i].response
              IN  /\ reqs'[i].promise = "resolved"
                  /\ reqs'[i].value = RefValue(t)
                  /\ \A f \in Fields :
                        objs'[t][f] = IF Has(body.fields, f) THEN body.fields[f]
                                                            ELSE objs[t][f]
                  /\ body.kind = "null" => objs' = objs
                  /\ \A o \in ObjRefs \ {t} : objs'[o] = objs[o]]_vars

C7_Witness ==
    \E i \in 1..Len(reqs) :
        /\ reqs[i].op = "update" /\ reqs[i].target = 1 /\ Succeeded(i)
        /\ reqs[i].response = RecBody(Row2)
        /\ reqs[i].value = RefValue(1)
        /\ objs[1] = Rec(JNum(1), JStr("c"))

\* C8: whatever the transport's outcome, success with any body (an empty one
\* included) or failure, the promise settles: resolved on success, rejected
\* on failure.
C8_PromiseSettles ==
    \A i \in 1..Len(reqs) :
        Done(i) => reqs[i].promise = (IF reqs[i].ok THEN "resolved" ELSE "rejected")

\* the outcomes the transport may complete request r with
Outcomes(r) == {Ok(body) : body \in BodiesFor(r)} \cup {Failed(e) : e \in Errors}

\* completing i then j leaves the objects and the promises as completing j
\* then i does
Commute(i, j) ==
    LET S == [objs |-> objs, reqs |-> reqs] IN
    \A oi \in Outcomes(reqs[i]), oj \in Outcomes(reqs[j]) :
        Settle(Settle(S, i, oi), j, oj) = Settle(Settle(S, j, oj), i, oi)

SameObjectWrites(i, j) ==
    /\ reqs[i].op \in WriteOps
    /\ reqs[j].op \in WriteOps
    /\ reqs[i].target = reqs[j].target

\* C9 as stated: for any two operations in flight, two writes given the same
\* object included, the resolved values and the objects' final state do not
\* depend on the order in which the responses arrive.
C9_OrderIndependent ==
    \A i, j \in 1..Len(reqs) :
        (i # j /\ InFlight(i) /\ InFlight(j)) => Commute(i, j)

\* C9 amended: the same, for any two operations in flight that are not two
\* writes (create, update, patch) given the same object.
C9_OrderIndependentUnlessSameObject ==
    \A i, j \in 1..Len(reqs) :
        (i # j /\ InFlight(i) /\ InFlight(j) /\ ~SameObjectWrites(i, j)) => Commute(i, j)

C9_Witness ==
    \E i, j \in 1..Len(reqs) :
        /\ i # j /\ InFlight(i) /\ InFlight(j)
        /\ reqs[i].op = "update" /\ reqs[j].op = "create"
        /\ reqs[i].target # reqs[j].target

AllOps == {"list", "get", "create", "update", "patch", "remove", "search",
           "upload", "uploadFor"}

\* C11: for each of list, get, create, update, patch, remove, search, upload
\* and uploadFor, when the transport fails with error e the promise is
\* rejected with exactly e, and it is not resolved.
C11_ErrorPropagates ==
    \A i \in 1..Len(reqs) :
        (reqs[i].op \in AllOps /\ Done(i) /\ ~reqs[i].ok) =>
            /\ reqs[i].promise = "rejected"
            /\ reqs[i].reason = reqs[i].error
            /\ reqs[i].value = NoValue

C11_Witness ==
    \E i, j \in 1..Len(reqs) :
        /\ reqs[i].op = "list" /\ Done(i) /\ reqs[i].error = "e1"
        /\ reqs[i].promise = "rejected" /\ reqs[i].reason = "e1"
        /\ reqs[j].op = "search" /\ reqs[j].verb = "DELETE" /\ Done(j)
        /\ reqs[j].error = "e2" /\ reqs[j].reason = "e2"

\* this step hands one more request to the transport: verb, url and body as
\* given, with the params and headers the caller passed
Sent(verb, url, body) ==
    /\ Len(reqs') = Len(reqs) + 1
    /\ SubSeq(reqs', 1, Len(reqs)) = reqs
    /\ LET r == reqs'[Len(reqs')]
       IN  /\ r.verb = verb
           /\ r.url = url
           /\ r.params = opts[1]
           /\ r.headers = opts[2]
           /\ r.body = body
           /\ r.status = "inflight"

UrlOf(o) == apiUrl \o "/" \o JToString(objs[o].id)

\* C13: each canonical operation issues exactly one HTTP request with the
\* caller's params and headers: list GET apiUrl; get GET apiUrl/id; create
\* POST apiUrl with the resource as body; update PUT apiUrl/id with the
\* resource as body; patch PATCH apiUrl/id with the resource as body; remove
\* DELETE apiUrl/id without body.
C13_CanonicalRequests ==
    [][/\ CallList => Sent("GET", apiUrl, JUndef)
       /\ CallGet => Sent("GET", apiUrl \o "/5", JUndef)
       /\ CallCreate => Sent("POST", apiUrl, JObj(2))
       /\ CallUpdate => \E o \in ObjRefs : Sent("PUT", UrlOf(o), JObj(o))
       /\ CallPatch => Sent("PATCH", UrlOf(1), JObj(1))
       /\ CallRemove => Sent("DELETE", UrlOf(2), JUndef)]_vars

C13_Witness ==
    \E i, j \in 1..Len(reqs) :
        /\ reqs[i].op = "update" /\ reqs[i].verb = "PUT" /\ reqs[i].url = "/user/1"
        /\ reqs[i].body = JObj(1)
        /\ reqs[i].params = SomeOpts[1] /\ reqs[i].headers = SomeOpts[2]
        /\ reqs[j].op = "remove" /\ reqs[j].verb = "DELETE" /\ reqs[j].body = JUndef

\* C19: remove resolves with the very object the caller passed in, every
\* field of it (and of every other object) unchanged, whatever body the
\* server returns with its success response.
C19_RemoveLeavesObject ==
    [][\A i \in 1..Len(reqs) :
          (/\ reqs[i].op = "remove"
           /\ reqs[i].status = "inflight"
           /\ reqs'[i].status = "done"
           /\ reqs'[i].ok) =>
              /\ reqs'[i].promise = "resolved"
              /\ reqs'[i].value = RefValue(reqs[i].target)
              /\ objs' = objs]_vars

C19_Witness ==
    \E i \in 1..Len(reqs) :
        /\ reqs[i].op = "remove" /\ reqs[i].target = 2 /\ Succeeded(i)
        /\ reqs[i].response = RecBody(Row1)
        /\ reqs[i].value = RefValue(2)
        /\ objs[2] = Rec(JUndef, JStr("n"))

SearchMethods == {JUndef, JStr("get"), JStr("patch"), JStr("delete")}
SearchVerb(m) ==
    CASE m = JStr("patch") -> "PATCH" [] m = JStr("delete") -> "DELETE" [] OTHER -> "GET"

\* C20: search(params, verb, resource, headers) issues one request to
\* apiUrl + '/search': verb get (the default) sends GET without body and
\* resolves with the materialized list envelope; verb patch sends PATCH with
\* the resource as body and resolves with nothing; verb delete sends DELETE
\* without body and resolves with nothing; for patch and delete the response
\* body is ignored.
C20_Search ==
    /\ [](\A m \in SearchMethods, h \in {JUndef, SomeOpts[2]} :
            LET r == search(SomeOpts[1], m, JObj(1), h)
            IN  /\ r.verb = SearchVerb(m)
                /\ r.url = apiUrl \o "/search"
                /\ r.params = SomeOpts[1]
                /\ r.headers = h
                /\ r.body = IF m = JStr("patch") THEN JObj(1) ELSE JUndef)
    /\ [](\A i \in 1..Len(reqs) :
            LET r == reqs[i] IN
            (r.op = "search" /\ Succeeded(i)) =>
                /\ (r.verb = "GET" /\ r.response.kind = "envelope") =>
                      /\ r.promise = "resolved"
                      /\ r.value.kind = "list"
                      /\ r.value.hasData = r.response.hasData
                      /\ Len(r.value.data) = Len(r.response.data)
                      /\ \A k \in 1..Len(r.response.data) :
                            MaterializedFrom(r.value.data[k], r.response.data[k])
                      /\ r.value.hasMeta = r.response.hasMeta
                      /\ r.value.count = r.response.count
                /\ r.verb \in {"PATCH", "DELETE"} =>
                      /\ r.promise = "resolved"
                      /\ r.value = VoidValue)
    /\ [][CallSearch =>
            /\ Len(reqs') = Len(reqs) + 1
            /\ SubSeq(reqs', 1, Len(reqs)) = reqs
            /\ LET r == reqs'[Len(reqs')]
               IN  /\ r.url = apiUrl \o "/search"
                   /\ r.params = JParams(<<<<"id", "2">>>>)
                   /\ r.headers = opts[2]
                   /\ <<r.verb, r.body>> \in {<<"GET", JUndef>>, <<"PATCH", JObj(1)>>,
                                               <<"DELETE", JUndef>>}]_vars

C20_Witness ==
    \E i, j \in 1..Len(reqs) :
        /\ reqs[i].op = "search" /\ reqs[i].verb = "PATCH" /\ Succeeded(i)
        /\ reqs[i].body = JObj(1)
        /\ reqs[i].response = EnvBody(TRUE, <<Row1, Row2>>, TRUE, 2)
        /\ reqs[i].value = VoidValue
        /\ reqs[j].op = "search" /\ reqs[j].verb = "GET" /\ Succeeded(j)
        /\ reqs[j].response = EnvBody(TRUE, <<Row1, Row2>>, TRUE, 2)
        /\ reqs[j].value.kind = "list" /\ Len(reqs[j].value.data) = 2

\* C21: the apiUrl of a service is the base URL the configuration store held
\* when the service was constructed, followed by the model's base path; no
\* operation of the service or of its builders changes it, and a setBaseUrl
\* call made afterwards changes neither it nor the URLs of later requests.
C21_ApiUrlFixedAtConstruction ==
    /\ apiUrl = configUrl \o BasePath
    /\ [][apiUrl' = apiUrl]_vars
    /\ [][/\ CallList => Sent("GET", apiUrl, JUndef)
          /\ CallGet => Sent("GET", apiUrl \o "/5", JUndef)
          /\ \A b \in BuilderIds :
                Get(b) => /\ Len(reqs') = Len(reqs) + 1
                          /\ reqs'[Len(reqs')].url = apiUrl]_vars

C21_Witness ==
    /\ configUrl = ""
    /\ apiUrl = "https://hello.world/user"
    /\ \E i, j \in 1..Len(reqs) :
          /\ reqs[i].op = "list" /\ reqs[i].url = "https://hello.world/user"
          /\ reqs[j].op = "get" /\ reqs[j].url = "https://hello.world/user/5"

\* C24: upload issues POST to apiUrl + '/upload' and uploadFor issues POST to
\* apiUrl + '/' + resource.id + '/upload', each with the form data as body and
\* the caller's params and headers; each resolves with the response exactly as
\* the transport delivered it: no model instance is created, no hook runs, a
\* data list in the response is left as it came, and no object is changed.
C24_UploadsResolveRaw ==
    /\ [][/\ CallUpload => Sent("POST", apiUrl \o "/upload", FormData)
          /\ CallUploadFor => Sent("POST", UrlOf(1) \o "/upload", FormData)
          /\ objs' = objs]_vars
    /\ [](\A i \in 1..Len(reqs) :
            (reqs[i].op \in {"upload", "uploadFor"} /\ Done(i) /\ reqs[i].ok) =>
                /\ reqs[i].promise = "resolved"
                /\ reqs[i].value = RawValue(reqs[i].response)
                /\ reqs[i].value.item = NoInstance
                /\ reqs[i].value.raw.data = reqs[i].response.data)

C24_Witness ==
    /\ hasHook
    /\ \E i, j \in 1..Len(reqs) :
          /\ reqs[i].op = "upload" /\ reqs[i].url = "/user/upload"
          /\ reqs[i].verb = "POST" /\ reqs[i].body = FormData
          /\ reqs[i].params = SomeOpts[1] /\ reqs[i].headers = SomeOpts[2]
          /\ Succeeded(i)
          /\ reqs[i].value = RawValue(EnvBody(TRUE, <<Row1, Row2>>, TRUE, 2))
          /\ reqs[j].op = "uploadFor" /\ reqs[j].url = "/user/1/upload"
          /\ reqs[j].verb = "POST" /\ reqs[j].body = FormData
          /\ Succeeded(j)
          /\ reqs[j].value = RawValue(NullBody)

\* the url of a raw request: apiUrl for an empty path, apiUrl/path otherwise
RawUrlOf(path) ==
    IF path \in {JUndef, JStr("")} THEN apiUrl ELSE apiUrl \o "/" \o path.s

\* C25: rawGet, rawPost, rawPut, rawPatch and rawDelete each issue exactly one
\* request with their own verb to apiUrl when the path is empty and to
\* apiUrl/path otherwise, with the caller's options (and data, for post, put
\* and patch); the promise resolves or rejects with the transport's result:
\* nothing is materialized and nothing is merged into any object.
C25_RawPassThrough ==
    /\ [][/\ \A path \in RawPaths :
               /\ CallRawGet(path) => Sent("GET", RawUrlOf(path), JUndef)
               /\ CallRawPost(path) => Sent("POST", RawUrlOf(path), JObj(1))
               /\ CallRawPut(path) => Sent("PUT", RawUrlOf(path), JObj(1))
               /\ CallRawPatch(path) => Sent("PATCH", RawUrlOf(path), JObj(1))
               /\ CallRawDelete(path) => Sent("DELETE", RawUrlOf(path), JUndef)
          /\ objs' = objs]_vars
    /\ [](\A i \in 1..Len(reqs) :
            (reqs[i].op \in RawOps /\ Done(i)) =>
                IF reqs[i].ok
                THEN /\ reqs[i].promise = "resolved"
                     /\ reqs[i].value = RawValue(reqs[i].response)
                ELSE /\ reqs[i].promise = "rejected"
                     /\ reqs[i].reason = reqs[i].error
                     /\ reqs[i].value = NoValue)

C25_Witness ==
    \E i, j \in 1..Len(reqs) :
        /\ reqs[i].op = "rawPost" /\ reqs[i].verb = "POST" /\ reqs[i].url = "/user/admin"
        /\ reqs[i].body = JObj(1)
        /\ reqs[i].params = SomeOpts[1] /\ reqs[i].headers = SomeOpts[2]
        /\ Succeeded(i) /\ reqs[i].value = RawValue(RecBody(Row1))
        /\ objs[1] = Rec(JNum(1), JStr("a"))
        /\ reqs[j].op = "rawGet" /\ reqs[j].verb = "GET" /\ reqs[j].url = "/user"
        /\ Done(j) /\ ~reqs[j].ok /\ reqs[j].promise = "rejected" /\ reqs[j].reason = "e1"

\* the identifiers of the entries are pairwise distinct values
DistinctIds(entries) ==
    \A i, j \in 1..Len(entries) : i # j => entries[i].id # entries[j].id
\* the mapping an index object holds, and the lookup index[id]
Mapping(idx) == {idx[i] : i \in 1..Len(idx)}
Lookup(idx, id) == ValueOf(idx, JToString(id))
Reorderings(entries) ==
    {p \in EntryLists : /\ Len(p) = Len(entries)
                        /\ {p[i] : i \in 1..Len(p)} = {entries[i] : i \in 1..Len(entries)}}

\* C26: for every list of entries whose identifiers (numbers or strings) are
\* pairwise distinct, generateIndex returns a mapping with one key per
\* entry, which maps each identifier to its own entry; every permutation of
\* the list yields the same mapping; the list is left as it was.
C26_IndexByIdentifier ==
    (index.called /\ DistinctIds(index.entries)) =>
        /\ Cardinality(Keys(index.result)) = Len(index.entries)
        /\ \A i \in 1..Len(index.entries) :
              /\ JToString(index.entries[i].id) \in Keys(index.result)
              /\ Lookup(index.result, index.entries[i].id) = index.entries[i]
        /\ \A p \in Reorderings(index.entries) :
              Mapping(generateIndex(p)) = Mapping(index.result)

Rank(k) == CASE k = "only" -> 1 [] k = "limit" -> 2 [] k = "page" -> 3 [] k = "order" -> 4
\* the entries come in the order only, limit, page, order
InFixedOrder(p) ==
    /\ \A i \in 1..Len(p) : p[i][1] \in {"only", "limit", "page", "order"}
    /\ \A i, j \in 1..Len(p) : i < j => Rank(p[i][1]) < Rank(p[j][1])

WritingOps == {"create", "update", "patch", "remove"}

\* C28: when the transport fails a create, update, patch or remove, the object
\* the caller passed in is unchanged: neither the call nor the failure writes
\* to it (or to any other object).
C28_FailureLeavesObject ==
    [][/\ (CallCreate \/ CallUpdate \/ CallPatch \/ CallRemove) => objs' = objs
       /\ \A i \in 1..Len(reqs) :
             (/\ reqs[i].op \in WritingOps
              /\ reqs[i].status = "inflight"
              /\ reqs'[i].status = "done"
              /\ ~reqs'[i].ok) =>
                 /\ reqs'[i].promise = "rejected"
                 /\ objs' = objs]_vars

C28_Witness ==
    \E i, j \in 1..Len(reqs) :
        /\ reqs[i].op = "update" /\ reqs[i].target = 1 /\ Succeeded(i)
        /\ reqs[i].response = RecBody(Row1)
        /\ reqs[j].op = "patch" /\ reqs[j].target = 1
        /\ Done(j) /\ ~reqs[j].ok /\ reqs[j].promise = "rejected"
        /\ objs[1] = Rec(JNum(7), JStr("b"))

\* C29: when two writes (create, update, patch) on the same object are in
\* flight, their responses are merged in arrival order: a field present in
\* both bodies ends with the value of the response that arrived last, and both
\* promises resolve with that one object.
C29_LastArrivalWins ==
    /\ [](\A i, j \in 1..Len(reqs) :
            (/\ i # j /\ InFlight(i) /\ InFlight(j)
             /\ reqs[i].op \in WriteOps /\ reqs[j].op \in WriteOps
             /\ reqs[i].target = reqs[j].target) =>
                \A bi, bj \in RecordBodies :
                    LET t == reqs[i].target
                        S1 == Settle([objs |-> objs, reqs |-> reqs], i, Ok(bi))
                        S2 == Settle(S1, j, Ok(bj))
                    IN  /\ S2.objs[t] = Assign(Assign(objs[t], bi.fields), bj.fields)
                        /\ \A f \in Fields :
                              (Has(bi.fields, f) /\ Has(bj.fields, f)) =>
                                  S2.objs[t][f] = bj.fields[f]
                        /\ S2.reqs[i].promise = "resolved"
                        /\ S2.reqs[j].promise = "resolved"
                        /\ S2.reqs[i].value = RefValue(t)
                        /\ S2.reqs[j].value = RefValue(t))
    /\ [][\A i, j \in 1..Len(reqs) :
            (/\ i # j /\ Succeeded(i) /\ InFlight(j)
             /\ reqs[i].op \in WriteOps /\ reqs[j].op \in WriteOps
             /\ reqs[i].target = reqs[j].target
             /\ reqs'[j].status = "done" /\ reqs'[j].ok) =>
                LET t == reqs[j].target
                    body == reqs'[j].response
                IN  /\ objs'[t] = Assign(objs[t], body.fields)
                    /\ \A f \in Fields :
                          Has(body.fields, f) => objs'[t][f] = body.fields[f]
                    /\ reqs'[i].value = RefValue(t)
                    /\ reqs'[j].value = RefValue(t)]_vars

C29_Witness ==
    \E i, j \in 1..Len(reqs) :
        /\ i < j
        /\ reqs[i].op = "update" /\ reqs[j].op = "patch"
        /\ reqs[i].target = 1 /\ reqs[j].target = 1
        /\ Succeeded(i) /\ Succeeded(j)
        /\ reqs[i].response = RecBody(Row2) /\ reqs[j].response = RecBody(Row1)
        /\ reqs[i].value = RefValue(1) /\ reqs[j].value = RefValue(1)
        /\ objs[1] = Rec(JNum(7), JStr("c"))

\* C30: the request of a terminal call is fixed when the call is made: a
\* modifier called afterwards changes neither the params nor the headers of a
\* request already issued, and what it added is part of the request of the
\* next terminal call, which carries the serialization of the builder as it
\* is at that call.
C30_RequestFixedAtCall ==
    /\ [][\A b \in BuilderIds : Modifier(b) => reqs' = reqs]_vars
    /\ [][\A b \in BuilderIds :
            (Get(b) \/ Remove(b) \/ Patch(b)) =>
                /\ Len(reqs') = Len(reqs) + 1
                /\ SubSeq(reqs', 1, Len(reqs)) = reqs
                /\ Last(reqs').params =
                      JParams(IF builders[b].isSearch THEN searchHttpParams(builders[b])
                                                      ELSE getHttpParams(builders[b]))
                /\ Last(reqs').headers = getHttpHeaders(builders[b])]_vars

====
